---- MODULE Spec2Model ----
(***************************************************************************)
(* DRC: the registry clean-up pipeline of src/main.rs (process,            *)
(* collect_tasks) over the registry client of src/docker.rs.               *)
(*                                                                         *)
(* One action is the code that runs between two suspension points of the   *)
(* single asynchronous executor: the return of one HTTP exchange, or the   *)
(* return of join_all, followed by everything process() does until it      *)
(* awaits again.                                                           *)
(***************************************************************************)
EXTENDS Integers, Sequences, FiniteSets, TLC

\* ------------------------------------------------------------------ bounds
MaxTags == 3       \* most tags the registry lists over one run
MaxFairTags == 2   \* the same, in the runs checked for termination

\* the catalog listings the registry answers with: no repository, one, two,
\* and one repository named twice
CatalogListings == {<<>>, <<"app">>, <<"app", "db">>, <<"app", "app">>}
TagNames == {"latest", "v1", "dev", "pr"}
Retentions == {1}
Clock == {3, 4}
CreatedStrings == {"1970-01-01T00:00:02Z", "1970-01-01T00:00:03Z", "yesterday"}

\* ------------------------------------------------------------ small helpers
Min(S) == CHOOSE x \in S : \A y \in S : x <= y

SeqsUpTo(S, n) == UNION {[1..k -> S] : k \in 0..n}

RECURSIVE Flatten(_)
Flatten(ss) == IF ss = <<>> THEN <<>> ELSE Head(ss) \o Flatten(Tail(ss))

RECURSIVE SumLen(_)
SumLen(ss) == IF ss = <<>> THEN 0 ELSE Len(Head(ss)) + SumLen(Tail(ss))

\* Option<T>: None is <<>>, Some(x) is <<x>>
None == <<>>
Some(x) == <<x>>
unwrap_or(opt, default) == IF opt = None THEN default ELSE opt[1]

\* Result<T>
Ok(v) == [ok |-> TRUE, val |-> v, err |-> ""]
Err(kind) == [ok |-> FALSE, val |-> <<>>, err |-> kind]

\* the characters of the strings the model uses
Chars(s) ==
    CASE s = "latest" -> <<"l", "a", "t", "e", "s", "t">>
      [] s = "v1" -> <<"v", "1">>
      [] s = "dev" -> <<"d", "e", "v">>
      [] s = "pr" -> <<"p", "r">>
      [] s = "v" -> <<"v">>

starts_with(s, prefix) ==
    /\ Len(Chars(s)) >= Len(Chars(prefix))
    /\ SubSeq(Chars(s), 1, Len(Chars(prefix))) = Chars(prefix)

\* OffsetDateTime::parse(.., Iso8601::PARSING) then unix_timestamp()
ParseIso8601(s) ==
    CASE s = "1970-01-01T00:00:02Z" -> Ok(2)
      [] s = "1970-01-01T00:00:03Z" -> Ok(3)
      [] OTHER -> Err("Parse")

\* --------------------------------------------------------- the HTTP exchange
\* What one request comes back with: a transport failure, or a status and a
\* body. valid = FALSE is a body that does not deserialize into Response.
TransportFailure == [net |-> FALSE, status |-> 0, valid |-> FALSE, body |-> None]
Reply(status, valid, body) ==
    [net |-> TRUE, status |-> status, valid |-> valid, body |-> body]
NotFound == Reply(404, FALSE, None)
Malformed == Reply(200, FALSE, None)

\* send().await?.error_for_status()?.json().await?
FetchLenient(ex) == IF ~ex.net THEN Err("Transport") ELSE Ok(ex.body)

Fetch(ex) ==
    IF ~ex.net THEN Err("Transport")
    ELSE IF ex.status \notin 200..299 THEN Err("Status")
    ELSE IF ~ex.valid THEN Err("Parse")
    ELSE Ok(ex.body)

\* the registry's manifests: the config digest behind (repository, tag).
\* latest and v1 name one image; so do dev and pr in repository db.
ManifestOf(repo, tag) ==
    CASE tag = "latest" -> "sha256:v1"
      [] tag = "v1" -> "sha256:v1"
      [] tag = "dev" -> "sha256:dev"
      [] tag = "pr" -> IF repo = "db" THEN "sha256:dev" ELSE "sha256:pr"

\* what each kind of request comes back with: every failure of Fetch for the
\* two listings, a missing manifest, an unparseable creation date, a failed
\* or refused delete
CatalogExchanges ==
    {TransportFailure, NotFound, Malformed, Reply(200, TRUE, None)}
        \cup {Reply(200, TRUE, Some(l)) : l \in CatalogListings}
TagListExchanges(room) ==
    {TransportFailure, NotFound, Malformed, Reply(200, TRUE, None)}
        \cup {Reply(200, TRUE, Some(l)) : l \in SeqsUpTo(TagNames, room)}
ManifestExchanges(tag) ==
    {NotFound, Reply(200, TRUE, Some(ManifestOf(tag.repo, tag.name)))}
BlobExchanges == {Reply(200, TRUE, Some(c)) : c \in CreatedStrings}
DeleteExchanges == {TransportFailure, NotFound, Reply(202, TRUE, None)}

\* ------------------------------------------------------------- docker.rs
Tag(name, repository) == [name |-> name, repo |-> repository]
TagDigest(digest, tag) == [digest |-> digest, tag |-> tag]
Blob(tag_digest, date) == [tag_digest |-> tag_digest, date |-> date]

list_repositories_strict(ex) ==
    LET response == Fetch(ex)
    IN  IF ~response.ok THEN response
        ELSE IF response.val = None THEN Err("Parse")
        ELSE Ok(response.val[1])

list_repositories(ex) ==
    LET response == Fetch(ex)
    IN  IF ~response.ok THEN response
        ELSE Ok(unwrap_or(response.val, <<>>))

list_tags(ex, repository) ==
    LET response == Fetch(ex)
    IN  IF ~response.ok THEN response
        ELSE LET names == unwrap_or(response.val, <<>>)
             IN  Ok([i \in 1..Len(names) |-> Tag(names[i], repository)])

get_tag_digest(ex, tag) ==
    LET response == Fetch(ex)
    IN  IF ~response.ok THEN response
        ELSE Ok(TagDigest(response.val[1], tag))

get_blob(ex, digest) ==
    LET response == Fetch(ex)
    IN  IF ~response.ok THEN response
        ELSE LET parsed_time == ParseIso8601(response.val[1])
             IN  IF ~parsed_time.ok THEN parsed_time
                 ELSE Ok(Blob(digest, parsed_time.val))

delete_digest(ex) ==
    IF ~ex.net THEN Err("Transport")
    ELSE IF ex.status \notin 200..299 THEN Err("Status")
    ELSE Ok(<<>>)

\* the requests, as the log of issued calls records them
CatalogCall == <<"catalog", "", "">>
TagsCall(repository) == <<"tags", repository, "">>
ManifestCall(tag) == <<"manifest", tag.repo, tag.name>>
BlobCall(digest) == <<"blob", digest.tag.repo, digest.digest>>
DeleteCallByTag(digest) == <<"delete", digest.tag.repo, digest.tag.name>>
DeleteCall(digest) == <<"delete", digest.tag.repo, digest.digest>>

\* ------------------------------------------------- main.rs: the repository gate
latest_tag(tags) == Len(SelectSeq(tags, LAMBDA x : x.name = "latest"))
version_tags(tags) == Len(SelectSeq(tags, LAMBDA x : starts_with(x.name, "v")))
required_tags(tags) == 1 + latest_tag(tags) + version_tags(tags)
HasFreeTagsAlways(tags) == TRUE
HasFreeTagsOrEqual(tags) == Len(tags) >= required_tags(tags)
HasFreeTags(tags) == Len(tags) > required_tags(tags)

\* the HashMap of lines 52-62: its keys, and the Vec<Tag> under a key
MapKeys(tags) == {tags[i].repo : i \in DOMAIN tags}
MapGet(tags, repository) == SelectSeq(tags, LAMBDA x : x.repo = repository)

\* into_iter() of a HashMap visits its entries in an unspecified order
IterOrders(S) ==
    {f \in [1..Cardinality(S) -> S] : \A i, j \in DOMAIN f : f[i] = f[j] => i = j}

Filtered(tags, order) ==
    Flatten([i \in DOMAIN order |->
        IF HasFreeTags(MapGet(tags, order[i])) THEN MapGet(tags, order[i]) ELSE <<>>])

\* lines 106-109
DeleteBefore(clock, retention) == clock - retention
DeletableAtCutoff(blob, delete_before) == blob.date <= delete_before
Deletable(blob, delete_before) == blob.date < delete_before
ToDeleteOncePerDigest(blobs, delete_before) ==
    SelectSeq(blobs, LAMBDA x :
        /\ Deletable(x, delete_before)
        /\ x = blobs[Min({j \in DOMAIN blobs :
                    /\ blobs[j].tag_digest.digest = x.tag_digest.digest
                    /\ blobs[j].tag_digest.tag.repo = x.tag_digest.tag.repo})])

ToDelete(blobs, delete_before) ==
    SelectSeq(blobs, LAMBDA x : Deletable(x, delete_before))

\* ------------------------------------------------------------------ state
Stages == {"list_tags", "get_tag_digest", "get_blob"}

VARIABLES
    args,             \* Args: retention, dry_run
    pc,               \* where process() is suspended
    catalog,          \* the exchange list_repositories came back with
    repositories,     \* line 45
    tasks,            \* the futures join_all is driving (lines 146-150)
    first_failed,     \* the future that failed first in time, 0 if none did
    tags,             \* lines 47-50
    to_process_tags,  \* lines 65-98
    digests,          \* line 101
    blobs,            \* line 103
    now,              \* the clock reading of line 106, 0 before it
    to_delete,        \* lines 107-109
    deleting,         \* position of the loop of line 117 in to_delete
    delete_results,   \* what the awaited delete_digest calls returned
    calls,            \* every request sent, in order
    lines,            \* every info!/warn! line written, in order
    deleted,          \* the delete requests the registry carried out
    result            \* what process() returned

vars == <<args, pc, catalog, repositories, tasks, first_failed, tags, to_process_tags,
          digests, blobs, now, to_delete, deleting, delete_results, calls, lines,
          deleted, result>>

Running == [ok |-> TRUE, val |-> <<>>, err |-> "running"]

Init ==
    /\ args \in [retention : Retentions, dry_run : BOOLEAN]
    /\ pc = "main"
    /\ catalog = TransportFailure
    /\ repositories = <<>>
    /\ tasks = <<>>
    /\ first_failed = 0
    /\ tags = <<>>
    /\ to_process_tags = <<>>
    /\ digests = <<>>
    /\ blobs = <<>>
    /\ now = 0
    /\ to_delete = <<>>
    /\ deleting = 0
    /\ delete_results = <<>>
    /\ calls = <<>>
    /\ lines = <<>>
    /\ deleted = <<>>
    /\ result = Running

\* ------------------------------------------------------------ collect_tasks
Pending == [st |-> "pending", ex |-> TransportFailure, out |-> <<>>, err |-> ""]
Finished(ex, r) ==
    [st |-> IF r.ok THEN "ok" ELSE "err", ex |-> ex, out |-> r.val, err |-> r.err]

\* lines 146-149: one future per input, all of them polled by join_all
Spawn(input) == [i \in DOMAIN input |-> Pending]

AllFinished(ts) == \A i \in DOMAIN ts : ts[i].st # "pending"
Failed(ts) == {i \in DOMAIN ts : ts[i].st = "err"}

\* line 150: join_all(tasks).await is ready once every future has finished
JoinNeverReady(ts) == FALSE
TryJoinReady(ts) == AllFinished(ts) \/ Failed(ts) # {}
SelectReady(ts) == \E i \in DOMAIN ts : ts[i].st # "pending"
JoinReady(ts) == AllFinished(ts)

\* lines 152-153: into_iter().collect::<Result<Vec<_>>>()
CollectedFirstInTime(ts) ==
    IF Failed(ts) = {} THEN Ok([i \in DOMAIN ts |-> ts[i].out])
    ELSE Err(ts[first_failed].err)

CollectedReversed(ts) ==
    IF Failed(ts) = {} THEN Ok([i \in DOMAIN ts |-> ts[Len(ts) + 1 - i].out])
    ELSE Err(ts[Min(Failed(ts))].err)

Collected(ts) ==
    IF Failed(ts) = {} THEN Ok([i \in DOMAIN ts |-> ts[i].out])
    ELSE Err(ts[Min(Failed(ts))].err)

\* ------------------------------------------------------------- the log lines
WarnDryRun == <<"Dry run is enabled. No images will be deleted!", "", "">>
DryRunHeader ==
    <<"Dry run is enabled. If it were not, the following images would be deleted:", "", "">>
WouldDelete(blob) ==
    <<"- {}/{} (Age: {})", blob.tag_digest.tag.repo, blob.tag_digest.tag.name>>
Deleting(blob) ==
    <<"Deleting image {}/{}", blob.tag_digest.tag.repo, blob.tag_digest.tag.name>>
DoneLine == <<"Done. Took {}", "", "">>

\* lines 112-115
DryRunLinesSkippingFirst(td) ==
    <<DryRunHeader>> \o [i \in 1..(Len(td) - 1) |-> WouldDelete(td[i + 1])]

DryRunLines(td) == <<DryRunHeader>> \o [i \in DOMAIN td |-> WouldDelete(td[i])]

\* ------------------------------------------------------- process(), in pieces
\* Each piece runs from the point it names to the next await, and is handed
\* the request log so far.

\* process() returned Ok: main writes its last line (lines 29-30, 123)
Finish(cl, ln) ==
    /\ pc' = "done"
    /\ result' = Ok(<<>>)
    /\ calls' = cl
    /\ lines' = Append(ln, DoneLine)
    /\ tasks' = <<>>

\* a `?` of process() returned the error; main's unwrap() panics on it
Fail(e) ==
    /\ pc' = "failed"
    /\ result' = Err(e)

\* lines 111-123, up to the first delete request
Prune(td, cl) ==
    IF args.dry_run
    THEN /\ Finish(cl, lines \o DryRunLines(td))
         /\ deleting' = 0
    ELSE IF td = <<>>
    THEN /\ Finish(cl, lines)
         /\ deleting' = 0
    ELSE /\ pc' = "delete_digest"
         /\ deleting' = 1
         /\ lines' = Append(lines, Deleting(td[1]))
         /\ calls' = Append(cl, DeleteCall(td[1].tag_digest))
         /\ tasks' = <<>>
         /\ UNCHANGED result

\* lines 105-109
Retain(bs, cl) ==
    \E clock \in Clock :
        /\ now' = clock
        /\ blobs' = bs
        /\ to_delete' = ToDelete(bs, DeleteBefore(clock, args.retention))
        /\ Prune(ToDelete(bs, DeleteBefore(clock, args.retention)), cl)

\* lines 102-103
CollectBlobs(ds, cl) ==
    /\ digests' = ds
    /\ IF ds = <<>>
       THEN Retain(<<>>, cl)
       ELSE /\ pc' = "get_blob"
            /\ tasks' = Spawn(ds)
            /\ calls' = cl \o [i \in DOMAIN ds |-> BlobCall(ds[i])]
            /\ UNCHANGED <<blobs, now, to_delete, deleting, lines, result>>

\* lines 47-101, from the Vec of tags on
CollectDigests(tg, cl) ==
    /\ tags' = tg
    /\ \E order \in IterOrders(MapKeys(tg)) :
        /\ to_process_tags' = Filtered(tg, order)
        /\ IF Filtered(tg, order) = <<>>
           THEN CollectBlobs(<<>>, cl)
           ELSE /\ pc' = "get_tag_digest"
                /\ tasks' = Spawn(Filtered(tg, order))
                /\ calls' = cl \o [i \in DOMAIN Filtered(tg, order) |->
                                      ManifestCall(Filtered(tg, order)[i])]
                /\ UNCHANGED <<digests, blobs, now, to_delete, deleting, lines, result>>

\* lines 45-47, from the Vec of repositories on
CollectTags(rs, cl) ==
    /\ repositories' = rs
    /\ IF rs = <<>>
       THEN CollectDigests(<<>>, cl)
       ELSE /\ pc' = "list_tags"
            /\ tasks' = Spawn(rs)
            /\ calls' = cl \o [i \in DOMAIN rs |-> TagsCall(rs[i])]
            /\ UNCHANGED <<tags, to_process_tags, digests, blobs, now, to_delete,
                           deleting, lines, result>>

\* ----------------------------------------------------------------- actions
\* main, lines 17-27, and process up to its first await (line 45)
Main ==
    /\ pc = "main"
    /\ pc' = "list_repositories"
    /\ lines' = IF args.dry_run THEN <<WarnDryRun>> ELSE <<>>
    /\ calls' = <<CatalogCall>>
    /\ UNCHANGED <<args, catalog, repositories, tasks, first_failed, tags,
                   to_process_tags, digests, blobs, now, to_delete, deleting,
                   delete_results, deleted, result>>

\* line 45: the catalog request comes back
ListRepositoriesReturn ==
    /\ pc = "list_repositories"
    /\ \E ex \in CatalogExchanges :
        /\ catalog' = ex
        /\ IF list_repositories(ex).ok
           THEN /\ CollectTags(list_repositories(ex).val, calls)
                /\ UNCHANGED <<args, first_failed, delete_results, deleted>>
           ELSE /\ Fail(list_repositories(ex).err)
                /\ UNCHANGED <<args, repositories, tasks, first_failed, tags,
                               to_process_tags, digests, blobs, now, to_delete,
                               deleting, delete_results, calls, lines, deleted>>

\* future i of the running stage finishes with the result r of exchange ex
TaskReturnRetrying(i, ex, r) ==
    /\ tasks[i].st = "pending"
    /\ IF r.ok
       THEN tasks' = [tasks EXCEPT ![i] = Finished(ex, r)] /\ calls' = calls
       ELSE tasks' = tasks /\ calls' = Append(calls, calls[Len(calls)])
    /\ UNCHANGED <<args, pc, catalog, repositories, first_failed, tags,
                   to_process_tags, digests, blobs, now, to_delete, deleting,
                   delete_results, lines, deleted, result>>

TaskReturn(i, ex, r) ==
    /\ tasks[i].st = "pending"
    /\ tasks' = [tasks EXCEPT ![i] = Finished(ex, r)]
    /\ first_failed' = IF first_failed = 0 /\ ~r.ok THEN i ELSE first_failed
    /\ UNCHANGED <<args, pc, catalog, repositories, tags, to_process_tags, digests,
                   blobs, now, to_delete, deleting, delete_results, calls, lines,
                   deleted, result>>

\* the registry lists at most `most` tags over the run
RoomOf(most) == most - SumLen([j \in DOMAIN tasks |-> tasks[j].out])
Room == RoomOf(MaxTags)

ListTagsReturnWithin(room) ==
    /\ pc = "list_tags"
    /\ \E i \in DOMAIN tasks :
        \E ex \in TagListExchanges(room) :
            TaskReturn(i, ex, list_tags(ex, repositories[i]))

ListTagsReturn == ListTagsReturnWithin(Room)

GetTagDigestReturn ==
    /\ pc = "get_tag_digest"
    /\ \E i \in DOMAIN tasks :
        \E ex \in ManifestExchanges(to_process_tags[i]) :
            TaskReturn(i, ex, get_tag_digest(ex, to_process_tags[i]))

GetBlobReturn ==
    /\ pc = "get_blob"
    /\ \E i \in DOMAIN tasks :
        \E ex \in BlobExchanges :
            TaskReturn(i, ex, get_blob(ex, digests[i]))

\* collect_tasks returns to process(): lines 150-154, then the `?`
StageFails ==
    /\ Fail(Collected(tasks).err)
    /\ UNCHANGED <<args, catalog, repositories, tasks, first_failed, tags,
                   to_process_tags, digests, blobs, now, to_delete, deleting,
                   delete_results, calls, lines, deleted>>

CollectTagsReturn ==
    /\ pc = "list_tags"
    /\ JoinReady(tasks)
    /\ IF Collected(tasks).ok
       THEN /\ CollectDigests(Flatten(Collected(tasks).val), calls)
            /\ UNCHANGED <<args, catalog, repositories, first_failed,
                           delete_results, deleted>>
       ELSE StageFails

CollectDigestsReturn ==
    /\ pc = "get_tag_digest"
    /\ JoinReady(tasks)
    /\ IF Collected(tasks).ok
       THEN /\ CollectBlobs(Collected(tasks).val, calls)
            /\ UNCHANGED <<args, catalog, repositories, first_failed, tags,
                           to_process_tags, delete_results, deleted>>
       ELSE StageFails

CollectBlobsReturn ==
    /\ pc = "get_blob"
    /\ JoinReady(tasks)
    /\ IF Collected(tasks).ok
       THEN /\ Retain(Collected(tasks).val, calls)
            /\ UNCHANGED <<args, catalog, repositories, first_failed, tags,
                           to_process_tags, digests, delete_results, deleted>>
       ELSE StageFails

\* line 119: `?` on what delete_digest returned
NeverAborts(r) == FALSE
AbortsOnTransportOnly(r) == ~r.ok /\ r.err = "Transport"
Aborts(r) == ~r.ok

\* lines 117-120: the delete request of to_delete[deleting] comes back
DeleteDigestReturn ==
    /\ pc = "delete_digest"
    /\ \E ex \in DeleteExchanges :
        /\ delete_results' = Append(delete_results, delete_digest(ex))
        /\ deleted' = IF delete_digest(ex).ok
                      THEN Append(deleted, DeleteCall(to_delete[deleting].tag_digest))
                      ELSE deleted
        /\ UNCHANGED <<args, catalog, repositories, first_failed, tags,
                       to_process_tags, digests, blobs, now, to_delete>>
        /\ IF Aborts(delete_digest(ex))
           THEN /\ Fail(delete_digest(ex).err)
                /\ UNCHANGED <<deleting, calls, lines, tasks>>
           ELSE IF deleting < Len(to_delete)
           THEN /\ deleting' = deleting + 1
                /\ lines' = Append(lines, Deleting(to_delete[deleting + 1]))
                /\ calls' = Append(calls, DeleteCall(to_delete[deleting + 1].tag_digest))
                /\ UNCHANGED <<pc, result, tasks>>
           ELSE /\ Finish(calls, lines)
                /\ UNCHANGED deleting

Next ==
    \/ Main
    \/ ListRepositoriesReturn
    \/ ListTagsReturn
    \/ CollectTagsReturn
    \/ GetTagDigestReturn
    \/ CollectDigestsReturn
    \/ GetBlobReturn
    \/ CollectBlobsReturn
    \/ DeleteDigestReturn

Spec == Init /\ [][Next]_vars

\* every request sent comes back, and the executor resumes process() when the
\* future it awaits is ready: a step that stays possible is taken
FairListTagsReturn == ListTagsReturnWithin(RoomOf(MaxFairTags))

FairNext ==
    \/ Main
    \/ ListRepositoriesReturn
    \/ FairListTagsReturn
    \/ CollectTagsReturn
    \/ GetTagDigestReturn
    \/ CollectDigestsReturn
    \/ GetBlobReturn
    \/ CollectBlobsReturn
    \/ DeleteDigestReturn

FairSpec == Init /\ [][FairNext]_vars /\ WF_vars(FairNext)

\* ======================================================================
\* The claims
\* ======================================================================
Listed == {repositories[i] : i \in DOMAIN repositories}

\* the spec's section 4.5(a), written from its words
latest_count(g) == IF \E i \in DOMAIN g : g[i].name = "latest" THEN 1 ELSE 0
version_count(g) == Cardinality({i \in DOMAIN g : Head(Chars(g[i].name)) = "v"})
SpecEligible(g) == Len(g) > 1 + latest_count(g) + version_count(g)

CallsOf(op) == SelectSeq(calls, LAMBDA c : c[1] = op)
Touching(r) ==
    {i \in DOMAIN calls : calls[i][1] \in {"manifest", "blob", "delete"} /\ calls[i][2] = r}
Cutoff == now - args.retention
DeleteRequest(blob) ==
    <<"delete", blob.tag_digest.tag.repo, blob.tag_digest.digest>>
\* how many tags of repository r the delete loop has sent a request for
DeletesIssuedIn(r) ==
    Cardinality({k \in 1..deleting : to_delete[k].tag_digest.tag.repo = r})

\* C1: a repository whose group of tags is no larger than
\* 1 + latest_count + version_count never has a manifest, blob or delete
\* request sent for it, whatever the age of its images.
C1_IneligibleNeverTouched ==
    \A r \in Listed :
        ~SpecEligible(MapGet(tags, r)) => Touching(r) = {}

\* a finished run that deleted images of one repository and left alone
\* another that has tags but none beyond the required ones
C1_Witness ==
    /\ pc = "done"
    /\ deleted # <<>>
    /\ \E r \in Listed :
        /\ MapGet(tags, r) # <<>>
        /\ ~SpecEligible(MapGet(tags, r))
        /\ Touching(r) = {}

\* a finished run left alone a repository whose three tags exceed
\* 1 + latest_count + version_count = 2, "latest" being listed twice
C2_Witness ==
    /\ pc = "done"
    /\ \E r \in Listed :
        /\ Len(MapGet(tags, r)) = 3
        /\ latest_tag(MapGet(tags, r)) = 2
        /\ SpecEligible(MapGet(tags, r))
        /\ Touching(r) = {}

\* C2: in a run that is not a dry run and in which no call fails, every tag
\* of a repository whose tag count exceeds 1 + latest_count + version_count
\* is resolved to a digest and a timestamp, and is deleted if older than the
\* retention window.
C2_EligibleAllResolved ==
    (pc = "done" /\ ~args.dry_run) =>
        \A r \in Listed :
            SpecEligible(MapGet(tags, r)) =>
                \A i \in DOMAIN MapGet(tags, r) :
                    \E k \in DOMAIN blobs :
                        /\ blobs[k].tag_digest.tag = MapGet(tags, r)[i]
                        /\ blobs[k].date < Cutoff =>
                            \E d \in DOMAIN deleted : deleted[d] = DeleteRequest(blobs[k])

\* C3: once the filter has run, a record is selected for deletion exactly
\* when its timestamp is strictly below now - retention; a record at the
\* cutoff is retained.
C3_DeletableIffOlderThanCutoff ==
    now # 0 =>
        /\ \A i \in DOMAIN blobs :
            (blobs[i].date < Cutoff) <=> (\E j \in DOMAIN to_delete : to_delete[j] = blobs[i])
        /\ Len(to_delete) = Cardinality({i \in DOMAIN blobs : blobs[i].date < Cutoff})
        /\ \A j \in DOMAIN to_delete : to_delete[j].date # Cutoff

\* the filter saw a record exactly at the cutoff, which it kept, and an older
\* one, which it selected
C3_Witness ==
    /\ now # 0
    /\ \E i, j \in DOMAIN blobs :
        /\ blobs[i].date = Cutoff
        /\ blobs[j].date < Cutoff
        /\ to_delete = <<blobs[j]>>

C5_DryRunDeletesNothing ==
    args.dry_run =>
        /\ CallsOf("delete") = <<>>
        /\ deleted = <<>>
        /\ pc = "done" =>
            SelectSeq(lines, LAMBDA l : l[1] = "- {}/{} (Age: {})") =
                [i \in DOMAIN to_delete |->
                    <<"- {}/{} (Age: {})", to_delete[i].tag_digest.tag.repo,
                      to_delete[i].tag_digest.tag.name>>]

\* a finished dry run with two records to report
C5_Witness ==
    /\ args.dry_run
    /\ pc = "done"
    /\ Len(to_delete) >= 2
    /\ Len(blobs) > Len(to_delete)

C7_DeleteFailureAborts ==
    \A i \in DOMAIN delete_results :
        ~delete_results[i].ok =>
            /\ pc = "failed"
            /\ result = delete_results[i]
            /\ i = Len(delete_results)
            /\ Len(CallsOf("delete")) = i
            /\ deleted = [k \in 1..(i - 1) |-> DeleteRequest(to_delete[k])]
            /\ \A c \in DOMAIN calls :
                calls[c][1] \in {"catalog", "tags", "manifest", "blob", "delete"}

\* the second of three delete requests failed
C7_Witness ==
    /\ pc = "failed"
    /\ Len(to_delete) = 3
    /\ Len(delete_results) = 2
    /\ ~delete_results[2].ok
    /\ Len(deleted) = 1
    /\ Len(CallsOf("delete")) = 2

\* a listing whose `repositories` or `tags` field is missing or null
FieldMissing == Reply(200, TRUE, None)

\* C8: a catalog answer without `repositories` gives a run that succeeds
\* with no repository and no further request; a tag listing without `tags`
\* gives a task that succeeds with no tag, and a stage of such tasks succeeds.
C8_MissingFieldIsEmptyList ==
    /\ (pc # "list_repositories" /\ catalog = FieldMissing) =>
        /\ repositories = <<>>
        /\ pc = "done"
        /\ result = Ok(<<>>)
        /\ calls = <<CatalogCall>>
    /\ \A i \in DOMAIN tasks :
        tasks[i].ex = FieldMissing =>
            /\ tasks[i].st = "ok"
            /\ tasks[i].out = <<>>
    /\ (pc = "list_tags" /\ \A i \in DOMAIN tasks : tasks[i].ex = FieldMissing) =>
        /\ JoinReady(tasks)
        /\ Collected(tasks) = Ok([i \in DOMAIN tasks |-> <<>>])

\* the tag listings of two repositories all came back without `tags`
C8_Witness ==
    /\ pc = "list_tags"
    /\ Len(tasks) = 2
    /\ \A i \in DOMAIN tasks : tasks[i].ex = FieldMissing

\* the catalog came back without `repositories` and the run finished
C8_WitnessCatalog ==
    /\ catalog = FieldMissing
    /\ pc = "done"

\* C9: process() is never past a stage while one of the stage's futures is
\* still pending, also when the stage failed; and while a stage is running,
\* a pending future can still finish whatever its siblings did.
C9_StageWaitsForAllTasks ==
    /\ pc \notin Stages => AllFinished(tasks)
    /\ (pc \in Stages /\ ~AllFinished(tasks)) =>
        ENABLED (ListTagsReturn \/ GetTagDigestReturn \/ GetBlobReturn)

\* a stage is still running two pending futures after a sibling failed
C9_Witness ==
    /\ pc \in Stages
    /\ first_failed # 0
    /\ Cardinality({i \in DOMAIN tasks : tasks[i].st = "pending"}) >= 2

\* the kind of the request sent last
LastOp == calls[Len(calls)][1]

\* C10: a run that a stage failed ends with the error of the failed future
\* of lowest position, and nothing the stage produced is used.
C10_FirstFailureInInputOrder ==
    (pc = "failed" /\ Failed(tasks) # {}) =>
        /\ result = Err(tasks[Min(Failed(tasks))].err)
        /\ blobs = <<>> /\ to_delete = <<>> /\ now = 0
        /\ CallsOf("delete") = <<>>
        /\ deleted = <<>>
        /\ LastOp = "tags" =>
            tags = <<>> /\ to_process_tags = <<>> /\ CallsOf("manifest") = <<>>
        /\ LastOp = "manifest" => digests = <<>> /\ CallsOf("blob") = <<>>

\* two futures failed with different errors, the later one first in time
C10_Witness ==
    /\ pc = "failed"
    /\ Cardinality(Failed(tasks)) >= 2
    /\ first_failed # Min(Failed(tasks))
    /\ tasks[first_failed].err # tasks[Min(Failed(tasks))].err

\* the request kinds in the order of the stages that send them
Rank(op) ==
    CASE op = "catalog" -> 1
      [] op = "tags" -> 2
      [] op = "manifest" -> 3
      [] op = "blob" -> 4
      [] op = "delete" -> 5

\* an exchange that is a Transport, Status or Parse failure, in the claim's words
BadExchange(ex) == ~ex.net \/ ex.status < 200 \/ ex.status > 299 \/ ~ex.valid

CatalogFailed == pc \notin {"main", "list_repositories"} /\ BadExchange(catalog)
TaskFailed(i) ==
    tasks[i].st # "pending" /\ (BadExchange(tasks[i].ex) \/ tasks[i].st = "err")

\* the request kind of the stage the futures in `tasks` belong to
StageOp ==
    IF pc = "list_tags" THEN "tags"
    ELSE IF pc = "get_tag_digest" THEN "manifest"
    ELSE IF pc = "get_blob" THEN "blob"
    ELSE IF digests # <<>> THEN "blob"
    ELSE IF to_process_tags # <<>> THEN "manifest"
    ELSE "tags"

C11_Fatal ==
    /\ CatalogFailed =>
        /\ pc = "failed"
        /\ ~result.ok /\ result.err \in {"Transport", "Status", "Parse"}
        /\ calls = <<CatalogCall>>
    /\ (\E i \in DOMAIN tasks : TaskFailed(i)) =>
        /\ pc \in Stages \cup {"failed"}
        /\ \A c \in DOMAIN calls : Rank(calls[c][1]) <= Rank(StageOp)
        /\ CallsOf("delete") = <<>> /\ deleted = <<>>
        /\ pc = "failed" =>
            ~result.ok /\ result.err \in {"Transport", "Status", "Parse"}

\* C11: once the catalog request or a future of a stage has failed (Transport,
\* Status or Parse), no request of a later stage is ever sent, no delete
\* request in particular, and the run ends with an error.
C11_ReadFailureIsFatal ==
    /\ []C11_Fatal
    /\ (CatalogFailed \/ \E i \in DOMAIN tasks : TaskFailed(i)) ~> (pc = "failed")

\* a blob request answered 200 with an unparseable date failed the last read
\* stage of a run that is not a dry run, after a sibling succeeded
C11_Witness ==
    /\ pc = "failed"
    /\ ~args.dry_run
    /\ StageOp = "blob"
    /\ \E i, j \in DOMAIN tasks :
        /\ tasks[i].st = "err" /\ tasks[i].err = "Parse"
        /\ tasks[j].st = "ok"

\* a read request is in flight
ReadInFlight ==
    pc = "list_repositories" \/ \E i \in DOMAIN tasks : tasks[i].st = "pending"

C12_InOrder ==
    /\ \A c, d \in DOMAIN calls : c < d => Rank(calls[c][1]) <= Rank(calls[d][1])
    /\ pc = "list_repositories" => calls = <<CatalogCall>>
    /\ (pc \in Stages) =>
        /\ Len(CallsOf(StageOp)) = Len(tasks)
        /\ \A c \in DOMAIN calls : Rank(calls[c][1]) <= Rank(StageOp)
    /\ CallsOf("delete") # <<>> => ~ReadInFlight /\ now # 0

C12_SentAfterCompletion ==
    calls' # calls =>
        /\ AllFinished(tasks)
        /\ SubSeq(calls', 1, Len(calls)) = calls
        /\ pc' \in Stages => Len(tasks') = Len(calls') - Len(calls)
        /\ \A c \in DOMAIN calls : \A d \in (Len(calls) + 1)..Len(calls') :
            \/ Rank(calls[c][1]) < Rank(calls'[d][1])
            \/ /\ calls[c][1] = "delete"
               /\ Len(calls') = Len(calls) + 1
               /\ Len(delete_results') = Len(CallsOf("delete"))

\* C12: requests are sent in the order catalog, tags, manifest, blob, delete;
\* the requests of a stage are sent in a step in which every request of the
\* stage before has come back, and no delete request is sent while a read
\* request is in flight.
C12_StagesInOrder == [][C12_SentAfterCompletion]_vars /\ []C12_InOrder

\* the first delete request is in flight after all five kinds of request
\* were sent, two blob requests among them
C12_Witness ==
    /\ pc = "delete_digest"
    /\ Len(CallsOf("blob")) >= 2
    /\ Len(CallsOf("tags")) = 2

\* the outputs of the futures of a stage, by position
Outputs == [k \in DOMAIN tasks |-> tasks[k].out]

C13_SlotHoldsOwnResult ==
    /\ \A i \in DOMAIN tasks :
        tasks[i].st = "ok" =>
            /\ pc = "list_tags" =>
                \A t \in DOMAIN tasks[i].out : tasks[i].out[t].repo = repositories[i]
            /\ pc = "get_tag_digest" => tasks[i].out.tag = to_process_tags[i]
            /\ pc = "get_blob" => tasks[i].out.tag_digest = digests[i]
    /\ digests # <<>> =>
        /\ Len(digests) = Len(to_process_tags)
        /\ \A k \in DOMAIN digests : digests[k].tag = to_process_tags[k]
    /\ blobs # <<>> =>
        /\ Len(blobs) = Len(digests)
        /\ \A k \in DOMAIN blobs : blobs[k].tag_digest = digests[k]

C13_CollectedInInputOrder ==
    (pc \in Stages /\ pc' \notin {pc, "failed"}) =>
        /\ pc = "list_tags" => tags' = Flatten(Outputs)
        /\ pc = "get_tag_digest" => digests' = Outputs
        /\ pc = "get_blob" => blobs' = Outputs

\* C13: the k-th result a stage hands on is the output of the future started
\* for its k-th input, whatever order the futures finished in.
C13_ResultsInInputOrder ==
    [][C13_CollectedInInputOrder]_vars /\ []C13_SlotHoldsOwnResult

\* the blob request of the second of two different digest records has come
\* back while that of the first is still in flight
C13_Witness ==
    /\ pc = "get_blob"
    /\ Len(tasks) >= 2
    /\ digests[1] # digests[2]
    /\ tasks[1].st = "pending"
    /\ tasks[2].st = "ok"

\* the delete requests sent that have not come back
DeletesInFlight == Len(CallsOf("delete")) - Len(delete_results)

\* C14: at most one delete request is in flight at any time, and the request
\* for a deletable record is sent only after the request for the record
\* before it has come back successfully.
C14_DeletesSequential ==
    /\ DeletesInFlight \in {0, 1}
    /\ DeletesInFlight = 1 <=> pc = "delete_digest"
    /\ \A k \in DOMAIN CallsOf("delete") :
        /\ CallsOf("delete")[k] = DeleteRequest(to_delete[k])
        /\ \A j \in 1..(k - 1) : delete_results[j].ok

\* the second of three delete requests is in flight after the first succeeded
C14_Witness ==
    /\ pc = "delete_digest"
    /\ Len(to_delete) = 3
    /\ Len(CallsOf("delete")) = 2
    /\ Len(delete_results) = 1
    /\ delete_results[1].ok

\* two records of one repository that name one digest under different tags
SharedDigest(a, b) ==
    /\ a.tag.repo = b.tag.repo
    /\ a.digest = b.digest
    /\ a.tag.name # b.tag.name

\* how many entries of the sequence s equal x
Count(s, x) == Cardinality({k \in DOMAIN s : s[k] = x})

\* C15: every tag handed on gets its own digest record, its own blob request
\* and, in a finished run that is not a dry run, its own delete request if
\* its record is older than the cutoff, also when several tags name one digest.
C15_NoDeduplicationByDigest ==
    /\ digests # <<>> =>
        /\ digests = [k \in DOMAIN to_process_tags |->
                TagDigest(ManifestOf(to_process_tags[k].repo, to_process_tags[k].name),
                          to_process_tags[k])]
        /\ CallsOf("blob") =
            [k \in DOMAIN digests |-> <<"blob", digests[k].tag.repo, digests[k].digest>>]
    /\ (pc = "done" /\ ~args.dry_run) =>
        \A k \in DOMAIN blobs :
            Count(CallsOf("delete"), DeleteRequest(blobs[k])) =
                Cardinality({j \in DOMAIN blobs :
                    /\ DeleteRequest(blobs[j]) = DeleteRequest(blobs[k])
                    /\ blobs[j].date < Cutoff})

\* a finished run sent two blob requests and two delete requests for the one
\* digest that two tags of a repository name
C15_Witness ==
    /\ pc = "done"
    /\ ~args.dry_run
    /\ \E i, j \in DOMAIN blobs :
        /\ SharedDigest(blobs[i].tag_digest, blobs[j].tag_digest)
        /\ Count(CallsOf("blob"), <<"blob", digests[i].tag.repo, digests[i].digest>>) = 2
        /\ Count(CallsOf("delete"), DeleteRequest(blobs[i])) = 2
        /\ Count(deleted, DeleteRequest(blobs[i])) = 2

C16_OneCallPerItem ==
    /\ Len(CallsOf("catalog")) <= 1
    /\ CallsOf("tags") = [k \in DOMAIN repositories |-> <<"tags", repositories[k], "">>]
    /\ CallsOf("manifest") =
        [k \in DOMAIN to_process_tags |->
            <<"manifest", to_process_tags[k].repo, to_process_tags[k].name>>]
    /\ Len(CallsOf("blob")) = Len(digests)
    /\ pc \in Stages \/ (pc = "failed" /\ tasks # <<>>) =>
        Len(CallsOf(StageOp)) = Len(tasks)

C16_NoRetry ==
    (pc \in Stages /\ pc' \in {pc, "failed"}) =>
        /\ calls' = calls
        /\ \A i \in DOMAIN tasks : tasks[i].st # "pending" => tasks'[i] = tasks[i]

\* C16: a stage sends one request per item of its input, by position, and a
\* request that came back, failed or not, is never sent again.
C16_OneCallPerItemNoRetry == [][C16_NoRetry]_vars /\ []C16_OneCallPerItem

\* a stage of two requests ended the run after one of them failed and the
\* other succeeded
C16_Witness ==
    /\ pc = "failed"
    /\ Len(tasks) = 2
    /\ Len(CallsOf(StageOp)) = 2
    /\ \E i, j \in DOMAIN tasks : tasks[i].st = "err" /\ tasks[j].st = "ok"

\* C17: for every repository the gate is evaluated on, the number of its tags
\* named "latest" that the gate counts is 0 or 1.
C17_LatestCountedAtMostOnce ==
    \A r \in MapKeys(tags) : latest_tag(MapGet(tags, r)) \in {0, 1}

\* the gate counted two tags named "latest" for a repository the catalog
\* names twice, each of its two tag listings naming "latest" once
C17_Witness ==
    /\ repositories = <<"app", "app">>
    /\ tags = <<Tag("latest", "app"), Tag("latest", "app")>>
    /\ latest_tag(MapGet(tags, "app")) = 2
    /\ pc = "done"

\* C18: every delete request sent is for a record of this run's blobs that is
\* strictly older than the cutoff, whose digest was resolved in this run by a
\* manifest and a blob request, and whose repository has more tags than
\* 1 + latest_count + version_count.
C18_DeleteTargets ==
    \A c \in DOMAIN CallsOf("delete") :
        \E k \in DOMAIN blobs :
            /\ CallsOf("delete")[c] = DeleteRequest(blobs[k])
            /\ blobs[k].date < Cutoff
            /\ now # 0
            /\ digests[k] = blobs[k].tag_digest
            /\ to_process_tags[k] = digests[k].tag
            /\ CallsOf("manifest")[k] =
                <<"manifest", to_process_tags[k].repo, to_process_tags[k].name>>
            /\ CallsOf("blob")[k] = <<"blob", digests[k].tag.repo, digests[k].digest>>
            /\ digests[k].tag.repo \in Listed
            /\ SpecEligible(MapGet(tags, digests[k].tag.repo))
            /\ \E t \in DOMAIN tags : tags[t] = digests[k].tag

\* a delete request is in flight for the one old record of a repository
\* whose other records are at or newer than the cutoff, while a second
\* repository with a single tag was left alone
C18_Witness ==
    /\ pc = "delete_digest"
    /\ Len(to_delete) = 1
    /\ Len(blobs) = 2
    /\ \E k \in DOMAIN blobs : blobs[k].date >= Cutoff
    /\ \E r \in Listed : Len(MapGet(tags, r)) = 1 /\ Touching(r) = {}

C19_Bounded ==
    /\ Len(CallsOf("catalog")) <= 1
    /\ Len(CallsOf("tags")) <= Len(repositories)
    /\ Len(CallsOf("manifest")) <= Len(tags)
    /\ Len(CallsOf("blob")) <= Len(tags)
    /\ Len(CallsOf("delete")) <= Len(to_delete)
    /\ Len(calls) <= 1 + Len(repositories) + 2 * Len(tags) + Len(to_delete)

C19_Ends ==
    /\ pc = "done" =>
        /\ result = Ok(<<>>)
        /\ now # 0
        /\ args.dry_run \/ Len(CallsOf("delete")) = Len(to_delete)
    /\ pc = "failed" =>
        /\ ~result.ok
        /\ \/ CatalogFailed /\ result = list_repositories(catalog)
           \/ Failed(tasks) # {} /\ result.err = tasks[Min(Failed(tasks))].err
           \/ delete_results # <<>> /\ result = delete_results[Len(delete_results)]

\* C19: when every request comes back, the run ends, with Ok after the
\* pruning stage or with the first error, and it has sent at most one catalog
\* request, one tag-list request per repository listed, one manifest and one
\* blob request per tag, and one delete request per deletable record.
C19_Terminates ==
    /\ <>(pc \in {"done", "failed"})
    /\ []C19_Bounded
    /\ []C19_Ends

\* a run that is not a dry run ended with Ok after requests of all five kinds
C19_Witness ==
    /\ pc = "done"
    /\ ~args.dry_run
    /\ Len(repositories) = 2
    /\ Len(CallsOf("blob")) = 2
    /\ Len(CallsOf("delete")) >= 1
    /\ Len(calls) = 1 + Len(repositories) + 2 * Len(tags) + Len(to_delete)

====
